---- MODULE Spec2Model ----
(***************************************************************************)
(* TradeLab data fetchers: IBKRFetcher (connect / disconnect /             *)
(* fetch_date_range / _save_data) and BatchFetcher (fetch_all).            *)
(*                                                                         *)
(* Calendar dates are day ordinals counted from a Monday, so that          *)
(* d % 7 is the weekday (0 = Mon ... 4 = Fri, 5 = Sat, 6 = Sun).  A result *)
(* mapping (dict date_str -> DataFrame) is represented by its key set.     *)
(* The gateway (ib_insync) and the file system are the environment: the    *)
(* outcome of each gateway request and of each save is chosen              *)
(* nondeterministically and recorded in `outcome'.                         *)
(***************************************************************************)
EXTENDS Integers, Sequences, FiniteSets, TLC

\* ---- bounds ------------------------------------------------------------
FirstDay == 3
LastDay == 8
BatchFirstDay == 4
BatchLastDay == 8
MaxLog == 3
MaxTickers == 3

Days == FirstDay..LastDay
BatchDays == BatchFirstDay..BatchLastDay
TickerNames == {"AAA", "BBB"}
BadDate == -1
NoEnd == -2

VARIABLES
  connected,   \* IBKRFetcher.connected
  log,         \* history of connect()/disconnect() calls on the fetcher
  ibDisc,      \* number of ib.disconnect() calls made on the gateway
  pc,          \* position of the fetch_date_range frame
  ticker,      \* fetch_date_range: ticker
  window,      \* fetch_date_range: start_date, end_date
  date_range,  \* fetch_date_range: date_range
  idx,         \* fetch_date_range: position of the for loop in date_range
  results,     \* fetch_date_range: keys of results
  ret,         \* fetch_date_range: keys of the returned mapping
  outcome,     \* what the gateway / file system did for each day of the call
  written,     \* files written by the call, as <<ticker, day>>
  trace,       \* gateway requests and time.sleep(0.5) calls of the call
  bpc,         \* position of the fetch_all frame
  bwindow,     \* fetch_all: start, end
  tickers,     \* fetch_all: tickers (load_tickers())
  tidx,        \* fetch_all: position of the for loop in tickers
  bresults,    \* fetch_all: results, ticker -> [present, days]
  bret,        \* fetch_all: returned mapping
  btrace       \* fetch_all: ticker iterations and time.sleep(1) calls

connVars == <<connected, log, ibDisc>>
frameVars == <<pc, ticker, window, date_range, idx, results, ret, outcome, written, trace>>
batchVars == <<bpc, bwindow, tickers, tidx, bresults, bret, btrace>>
vars == <<connVars, frameVars, batchVars>>

\* ---- business-day calendar (pd.date_range(..., freq='B')) ---------------
IsBusinessDay(d) == d % 7 < 5

RECURSIVE RollForward(_)
RollForward(d) == IF IsBusinessDay(d) THEN d ELSE RollForward(d + 1)

RECURSIVE RollBack(_)
RollBack(d) == IF IsBusinessDay(d) THEN d ELSE RollBack(d - 1)

NextBDay(d) == IF d % 7 = 4 THEN d + 3 ELSE IF d % 7 = 5 THEN d + 2 ELSE d + 1

RECURSIVE GenRange(_, _)
GenRange(cur, last) == IF cur > last THEN <<>> ELSE <<cur>> \o GenRange(NextBDay(cur), last)

CalRange(s, e) == [i \in 1..(IF e >= s THEN e - s + 1 ELSE 0) |-> s + i - 1]

BDateRange(s, e) == GenRange(RollForward(s), RollBack(e))

\* end = start when end_date is omitted
WindowEnd(w) == IF w.end = NoEnd THEN w.start ELSE w.end

WindowValid(w) == w.start # BadDate /\ w.end # BadDate

\* ---- initial state: freshly constructed IBKRFetcher / BatchFetcher -------
NoOutcome == [d \in Days |-> "none"]

NoResults == [t \in TickerNames |-> [present |-> FALSE, days |-> {}]]

Init ==
  /\ connected = FALSE
  /\ log = <<>>
  /\ ibDisc = 0
  /\ pc = "idle"
  /\ ticker = "AAA"
  /\ window = [start |-> FirstDay, end |-> NoEnd]
  /\ date_range = <<>>
  /\ idx = 1
  /\ results = {}
  /\ ret = {}
  /\ outcome = NoOutcome
  /\ written = {}
  /\ trace = <<>>
  /\ bpc = "idle"
  /\ bwindow = [start |-> BatchFirstDay, end |-> BatchFirstDay]
  /\ tickers = <<>>
  /\ tidx = 1
  /\ bresults = NoResults
  /\ bret = NoResults
  /\ btrace = <<>>

\* ---- IBKRFetcher.connect / disconnect -----------------------------------
FrameIdle == pc \in {"idle", "returned", "aborted"}

ResetFrame ==
  /\ pc' = "idle"
  /\ date_range' = <<>>
  /\ idx' = 1
  /\ results' = {}
  /\ ret' = {}
  /\ outcome' = NoOutcome
  /\ written' = {}
  /\ trace' = <<>>
  /\ UNCHANGED <<ticker, window>>

ConnectOkEffect ==
  /\ connected' = TRUE
  /\ log' = Append(log, "connect_ok")
  /\ UNCHANGED ibDisc

ConnectFailEffectDrops ==
  /\ connected' = FALSE
  /\ log' = Append(log, "connect_fail")
  /\ UNCHANGED ibDisc

ConnectFailEffect ==
  /\ log' = Append(log, "connect_fail")
  /\ UNCHANGED <<connected, ibDisc>>

DisconnectEffect ==
  /\ log' = Append(log, "disconnect")
  /\ IF connected
       THEN ibDisc' = ibDisc + 1 /\ connected' = FALSE
       ELSE UNCHANGED <<ibDisc, connected>>

ConnectOk ==
  /\ FrameIdle /\ bpc = "idle" /\ Len(log) < MaxLog
  /\ ConnectOkEffect
  /\ ResetFrame
  /\ UNCHANGED batchVars

ConnectFails ==
  /\ FrameIdle /\ bpc = "idle" /\ Len(log) < MaxLog
  /\ ConnectFailEffect
  /\ ResetFrame
  /\ UNCHANGED batchVars

Disconnect ==
  /\ FrameIdle /\ bpc = "idle" /\ Len(log) < MaxLog
  /\ DisconnectEffect
  /\ ResetFrame
  /\ UNCHANGED batchVars

\* ---- IBKRFetcher.fetch_date_range ---------------------------------------
EnterFetchUnguarded(t, w) ==
  /\ ticker' = t
  /\ window' = w
  /\ idx' = 1
  /\ results' = {}
  /\ outcome' = NoOutcome
  /\ written' = {}
  /\ trace' = <<>>
  /\ ret' = {}
  /\ IF ~WindowValid(w)
       THEN pc' = "returned" /\ date_range' = <<>>
       ELSE pc' = "loop" /\ date_range' = BDateRange(w.start, WindowEnd(w))

EnterFetch(t, w) ==
  /\ ticker' = t
  /\ window' = w
  /\ idx' = 1
  /\ results' = {}
  /\ outcome' = NoOutcome
  /\ written' = {}
  /\ trace' = <<>>
  /\ ret' = {}
  /\ IF ~connected \/ ~WindowValid(w)
       THEN pc' = "returned" /\ date_range' = <<>>
       ELSE pc' = "loop" /\ date_range' = BDateRange(w.start, WindowEnd(w))

FetchDateRange ==
  /\ FrameIdle /\ bpc = "idle"
  /\ \E t \in TickerNames, s \in Days \cup {BadDate}, e \in Days \cup {BadDate, NoEnd} :
       EnterFetch(t, [start |-> s, end |-> e])
  /\ UNCHANGED <<connVars, batchVars>>

InLoop == pc = "loop" /\ idx <= Len(date_range)

Req(d) == [ev |-> "req", day |-> d]

Sleep == [ev |-> "sleep", day |-> 0]

ReqRaisesBreaks ==
  /\ InLoop
  /\ outcome' = [outcome EXCEPT ![date_range[idx]] = "raise"]
  /\ trace' = Append(trace, Req(date_range[idx]))
  /\ pc' = "returned"
  /\ ret' = {}
  /\ UNCHANGED <<idx, results, written>>
  /\ UNCHANGED <<ticker, window, date_range, connVars, batchVars>>

ReqRaises ==
  /\ InLoop
  /\ outcome' = [outcome EXCEPT ![date_range[idx]] = "raise"]
  /\ trace' = Append(trace, Req(date_range[idx]))
  /\ idx' = idx + 1
  /\ UNCHANGED <<pc, results, ret, written>>
  /\ UNCHANGED <<ticker, window, date_range, connVars, batchVars>>

ReqEmptyBreaks ==
  /\ InLoop
  /\ outcome' = [outcome EXCEPT ![date_range[idx]] = "empty"]
  /\ trace' = Append(trace, Req(date_range[idx]))
  /\ pc' = "returned"
  /\ ret' = results
  /\ UNCHANGED <<idx, results, written>>
  /\ UNCHANGED <<ticker, window, date_range, connVars, batchVars>>

ReqEmpty ==
  /\ InLoop
  /\ outcome' = [outcome EXCEPT ![date_range[idx]] = "empty"]
  /\ trace' = Append(trace, Req(date_range[idx]))
  /\ idx' = idx + 1
  /\ UNCHANGED <<pc, results, ret, written>>
  /\ UNCHANGED <<ticker, window, date_range, connVars, batchVars>>

ReqDataSaved ==
  /\ InLoop
  /\ outcome' = [outcome EXCEPT ![date_range[idx]] = "saved"]
  /\ written' = written \cup {<<ticker, date_range[idx]>>}
  /\ results' = results \cup {date_range[idx]}
  /\ trace' = Append(Append(trace, Req(date_range[idx])), Sleep)
  /\ idx' = idx + 1
  /\ UNCHANGED <<pc, ret>>
  /\ UNCHANGED <<ticker, window, date_range, connVars, batchVars>>

ReqDataSaveFailsKept ==
  /\ InLoop
  /\ outcome' = [outcome EXCEPT ![date_range[idx]] = "save_failed"]
  /\ results' = results \cup {date_range[idx]}
  /\ trace' = Append(Append(trace, Req(date_range[idx])), Sleep)
  /\ idx' = idx + 1
  /\ UNCHANGED <<pc, ret, written>>
  /\ UNCHANGED <<ticker, window, date_range, connVars, batchVars>>

ReqDataSaveFails ==
  /\ InLoop
  /\ outcome' = [outcome EXCEPT ![date_range[idx]] = "save_failed"]
  /\ trace' = Append(Append(trace, Req(date_range[idx])), Sleep)
  /\ idx' = idx + 1
  /\ UNCHANGED <<pc, results, ret, written>>
  /\ UNCHANGED <<ticker, window, date_range, connVars, batchVars>>

\* a BaseException (KeyboardInterrupt) passes both `except Exception' clauses
ReqInterrupted ==
  /\ InLoop
  /\ outcome' = [outcome EXCEPT ![date_range[idx]] = "interrupt"]
  /\ trace' = Append(trace, Req(date_range[idx]))
  /\ pc' = "aborted"
  /\ UNCHANGED <<idx, results, ret, written>>
  /\ UNCHANGED <<ticker, window, date_range, connVars, batchVars>>

FetchReturn ==
  /\ pc = "loop" /\ idx > Len(date_range)
  /\ pc' = "returned"
  /\ ret' = results
  /\ UNCHANGED <<idx, results, outcome, written, trace>>
  /\ UNCHANGED <<ticker, window, date_range, connVars, batchVars>>


Next ==
  \/ ConnectOk
  \/ ConnectFails
  \/ Disconnect
  \/ FetchDateRange
  \/ ReqRaises
  \/ ReqEmpty
  \/ ReqDataSaved
  \/ ReqDataSaveFails
  \/ ReqInterrupted
  \/ FetchReturn

Spec == Init /\ [][Next]_vars

\* ---- BatchFetcher.load_tickers / fetch_all ------------------------------
\* load_tickers(): the manifest in file order, duplicates kept; [] on error
Manifests == UNION {[1..n -> TickerNames] : n \in 0..MaxTickers}

BatchWindows == {[start |-> s, end |-> e] : s \in BatchDays \cup {BadDate}, e \in BatchDays}

TickerEv(i) == [ev |-> "ticker", i |-> i]

BSleep == [ev |-> "sleep", i |-> 0]

FetchAllConnectFails ==
  /\ bpc = "idle" /\ pc = "idle"
  /\ \E w \in BatchWindows : bwindow' = w
  /\ ConnectFailEffect
  /\ bret' = NoResults
  /\ bpc' = "done"
  /\ UNCHANGED <<tickers, tidx, bresults, btrace, frameVars>>

FetchAllStart ==
  /\ bpc = "idle" /\ pc = "idle"
  /\ \E w \in BatchWindows : bwindow' = w
  /\ ConnectOkEffect
  /\ \E m \in Manifests : tickers' = m
  /\ bresults' = NoResults
  /\ tidx' = 1
  /\ bpc' = "loop"
  /\ UNCHANGED <<bret, btrace, frameVars>>

BeginTicker ==
  /\ bpc = "loop" /\ tidx <= Len(tickers)
  /\ EnterFetch(tickers[tidx], bwindow)
  /\ btrace' = Append(btrace, TickerEv(tidx))
  /\ bpc' = "in_fetch"
  /\ UNCHANGED <<bwindow, tickers, tidx, bresults, bret, connVars>>

\* an Exception escapes the try body at the delegate call (lines 58-59)
TickerRaises ==
  /\ bpc = "loop" /\ tidx <= Len(tickers)
  /\ btrace' = Append(btrace, TickerEv(tidx))
  /\ tidx' = tidx + 1
  /\ UNCHANGED <<bpc, bwindow, tickers, bresults, bret, connVars, frameVars>>

EndTicker ==
  /\ bpc = "in_fetch" /\ pc = "returned"
  /\ bresults' = [bresults EXCEPT ![ticker] = [present |-> TRUE, days |-> ret]]
  /\ btrace' = Append(btrace, BSleep)
  /\ tidx' = tidx + 1
  /\ bpc' = "loop"
  /\ ResetFrame
  /\ UNCHANGED <<bwindow, tickers, bret, connVars>>

TickerAbortedNoFinally ==
  /\ bpc = "in_fetch" /\ pc = "aborted"
  /\ bpc' = "aborted"
  /\ ResetFrame
  /\ UNCHANGED <<bwindow, tickers, tidx, bresults, bret, btrace, connVars>>

\* the BaseException leaves the loop; finally: self.fetcher.disconnect()
TickerAborted ==
  /\ bpc = "in_fetch" /\ pc = "aborted"
  /\ DisconnectEffect
  /\ bpc' = "aborted"
  /\ ResetFrame
  /\ UNCHANGED <<bwindow, tickers, tidx, bresults, bret, btrace>>

FetchAllReturn ==
  /\ bpc = "loop" /\ tidx > Len(tickers)
  /\ DisconnectEffect
  /\ bret' = bresults
  /\ bpc' = "done"
  /\ UNCHANGED <<bwindow, tickers, tidx, bresults, btrace, frameVars>>

NextBatch ==
  \/ FetchAllConnectFails
  \/ FetchAllStart
  \/ BeginTicker
  \/ TickerRaises
  \/ EndTicker
  \/ TickerAborted
  \/ FetchAllReturn
  \/ ReqRaises
  \/ ReqEmpty
  \/ ReqDataSaved
  \/ ReqDataSaveFails
  \/ ReqInterrupted
  \/ FetchReturn

SpecBatch == Init /\ [][NextBatch]_vars
\* ---- history operators used by the properties ---------------------------
RECURSIVE LastEffective(_)
LastEffective(l) ==
  IF l = <<>> THEN "none"
  ELSE IF l[Len(l)] = "connect_fail" THEN LastEffective(SubSeq(l, 1, Len(l) - 1))
  ELSE l[Len(l)]

\* some connect call succeeded and no disconnect call has happened since
LogConnected(l) == LastEffective(l) = "connect_ok"

\* disconnect calls made while a session was open
EffectiveDisconnects(l) ==
  Cardinality({i \in 1..Len(l) : l[i] = "disconnect" /\ LogConnected(SubSeq(l, 1, i - 1))})

IsReq(e) == e.ev = "req"

Requested == [i \in 1..Len(SelectSeq(trace, IsReq)) |-> SelectSeq(trace, IsReq)[i].day]

WeekdaysIn(w) == {d \in w.start..WindowEnd(w) : d % 7 \notin {5, 6}}

AllRequested == \A i \in 1..Len(date_range) : outcome[date_range[i]] # "none"

\* ---- properties ----------------------------------------------------------

\* C1: when a connected fetch_date_range call over a multi-day range returns
\* and some day's gateway request raised, every business day of the range was
\* still requested and every day whose request returned data and whose save
\* succeeded is a key of the returned mapping.
C1_PartialFailureIsolation ==
  (pc = "returned" /\ Len(date_range) > 1 /\ \E d \in Days : outcome[d] = "raise")
    => /\ AllRequested
       /\ \A i \in 1..Len(date_range) :
            outcome[date_range[i]] = "saved" => date_range[i] \in ret

C1_Witness ==
  /\ pc = "returned"
  /\ Len(date_range) >= 3
  /\ outcome[date_range[1]] = "saved"
  /\ outcome[date_range[2]] = "raise"
  /\ outcome[date_range[3]] = "saved"
  /\ ret = {date_range[1], date_range[3]}

\* C2: at every point of a fetch_date_range call and in its return value, a
\* date is a key of the result mapping only if its request returned data and
\* _save_data wrote the file; a day whose save failed is not a key and the
\* days after it are still processed.
C2_KeyOnlyIfSaved ==
  /\ \A d \in results \cup ret : outcome[d] = "saved" /\ <<ticker, d>> \in written
  /\ pc = "returned" =>
       \A i \in 1..Len(date_range) :
         outcome[date_range[i]] = "save_failed" =>
           /\ date_range[i] \notin ret
           /\ \A j \in (i + 1)..Len(date_range) : outcome[date_range[j]] # "none"

C2_Witness ==
  /\ pc = "returned"
  /\ Len(date_range) >= 2
  /\ outcome[date_range[1]] = "save_failed"
  /\ outcome[date_range[2]] = "saved"
  /\ ret = {date_range[2]}

\* C3: while no connect has succeeded, or a disconnect happened since the last
\* successful one, a fetch_date_range call returns the empty mapping at once:
\* no gateway request is issued and no file is written.
C3_UnconnectedFetchIsNoOp ==
  ~LogConnected(log) =>
    /\ pc \in {"idle", "returned"}
    /\ trace = <<>>
    /\ written = {}
    /\ ret = {}

C3_Witness ==
  /\ pc = "returned"
  /\ log # <<>> /\ log[Len(log)] = "disconnect"
  /\ WindowValid(window)
  /\ WeekdaysIn(window) # {}
  /\ ret = {}

\* C4: when fetch_all returns after a successful connect, the returned mapping
\* has a key for every ticker of the manifest, also for one whose fetch raised.
C4_AllTickersHaveKey ==
  (bpc = "done" /\ log # <<>> /\ log[1] = "connect_ok")
    => \A i \in 1..Len(tickers) : bret[tickers[i]].present

\* C5: from the successful connect of fetch_all until its exit the session
\* stays open, and on every exit (normal return or abort by an unhandled
\* error) ib.disconnect has been called exactly once and connected is false.
C5_DisconnectedExactlyOnce ==
  (log # <<>> /\ log[1] = "connect_ok") =>
    /\ bpc \in {"loop", "in_fetch"} => (connected /\ ibDisc = 0)
    /\ bpc \in {"done", "aborted"} => (~connected /\ ibDisc = 1)

C5_Witness ==
  /\ bpc = "aborted"
  /\ tidx = 2
  /\ ibDisc = 1
  /\ ~connected

\* C6: every ticker iteration of fetch_all other than the first starts right
\* after the inter-ticker delay of the previous iteration.
C6_DelayAfterEveryTicker ==
  \A k \in 1..Len(btrace) :
    (btrace[k].ev = "ticker" /\ k > 1) => btrace[k - 1] = BSleep

\* C7: when fetch_date_range returns, a day whose gateway response was empty
\* has no file and no key, and every later business day was still requested.
C7_EmptyDaySkipped ==
  /\ \A d \in Days : outcome[d] = "empty" => (d \notin results /\ <<ticker, d>> \notin written)
  /\ pc = "returned" =>
       \A i \in 1..Len(date_range) :
         outcome[date_range[i]] = "empty" =>
           /\ date_range[i] \notin ret
           /\ \A j \in (i + 1)..Len(date_range) : outcome[date_range[j]] # "none"

C7_Witness ==
  /\ pc = "returned"
  /\ Len(date_range) >= 2
  /\ outcome[date_range[1]] = "empty"
  /\ outcome[date_range[2]] = "saved"
  /\ ret = {date_range[2]}
  /\ written = {<<ticker, date_range[2]>>}

\* C8: every gateway request of a fetch_date_range call other than the first
\* comes right after the delay that follows the previous request.
C8_DelayBetweenRequests ==
  \A k \in 1..Len(trace) :
    (trace[k].ev = "req" /\ k > 1) => trace[k - 1] = Sleep

\* C9: the days a connected fetch_date_range call requests are weekdays of
\* [start, end] in ascending order, and when the call returns they are exactly
\* the weekdays of [start, end], each once (end = start when end_date is
\* omitted).
C9_BusinessDayEnumeration ==
  (connected /\ WindowValid(window)) =>
    /\ \A i \in 1..Len(Requested) : Requested[i] \in WeekdaysIn(window)
    /\ \A i \in 1..Len(Requested), j \in 1..Len(Requested) :
         i < j => Requested[i] < Requested[j]
    /\ pc = "returned" =>
         /\ Len(Requested) = Cardinality(WeekdaysIn(window))
         /\ {Requested[i] : i \in 1..Len(Requested)} = WeekdaysIn(window)

C9_Witness ==
  /\ pc = "returned"
  /\ connected
  /\ WindowValid(window)
  /\ window.start % 7 = 5
  /\ window.end # NoEnd /\ window.end > window.start
  /\ Len(Requested) >= 2

\* C10: connected is true exactly when some connect succeeded and no
\* disconnect happened since (a failed connect changes nothing, so requests
\* are still issued after it), and ib.disconnect is called only by a
\* disconnect made while connected.
C10_ConnectedFlag ==
  /\ connected = LogConnected(log)
  /\ ibDisc = EffectiveDisconnects(log)
  /\ trace # <<>> => LogConnected(log)

C10_Witness ==
  /\ log = <<"connect_ok", "connect_fail">>
  /\ connected
  /\ trace # <<>>
====
